---- MODULE Spec2Model ----
(***************************************************************************)
(* HydroDynamics (src/HydroDynamics/main.cpp): two communicating vessels,  *)
(* `big` and `small`, a piston pressure `externalPressure` changed by key  *)
(* events, and update() run once per iteration of the main loop.           *)
(*                                                                         *)
(* Every quantity of the program is a C `float`.  A float is modelled by   *)
(* its IEEE-754 binary32 bit pattern, kept as a signed integer: the        *)
(* absolute value is the 31 low bits (exponent field and fraction), the    *)
(* sign of the integer is the sign bit.  With this encoding the order of   *)
(* the integers is the order of the floats and 0 is +0.0.  The arithmetic  *)
(* below is round-to-nearest-even binary32 arithmetic, as produced by an   *)
(* SSE build (each operation rounded to float).  Infinities, NaNs and -0.0 *)
(* cannot arise from the values the model reaches and are not encoded.     *)
(***************************************************************************)
EXTENDS Integers, Sequences, FiniteSets, TLC

----------------------------------------------------------------------------
(* binary32 arithmetic *)

Abs(x) == IF x < 0 THEN -x ELSE x

Sgn(x) == IF x < 0 THEN -1 ELSE 1

Max(a, b) == IF a >= b THEN a ELSE b

\* significand of a float as an integer (hidden bit included for normals)
Mant(x) ==
  LET a == Abs(x)
  IN  IF (a \div 8388608) = 0 THEN a % 8388608 ELSE (a % 8388608) + 8388608

\* exponent e such that |x| = Mant(x) * 2^e
Expo(x) ==
  LET a == Abs(x)
  IN  IF (a \div 8388608) = 0 THEN -149 ELSE (a \div 8388608) - 150

\* number of significant bits of m (0 < m < 2^31)
BitLen(m) == CHOOSE n \in 1..31 : (m \div (2^(n - 1))) = 1

\* shift of a significand that brings it to 24 bits
NormShift(m) == 24 - BitLen(m)

\* the float nearest to sign * M * 2^e (ties to even); M > 0
RoundPack(sign, M, e) ==
  LET len   == BitLen(M)
      shift == Max(len - 24, (-149) - e)
  IN  IF shift <= 0
      THEN sign * ((e + shift + 150) * 8388608 + M * 2^(-shift) - 8388608)
      ELSE IF shift >= 31 THEN 0
      ELSE LET q    == M \div (2^shift)
               r    == M % (2^shift)
               half == 2^(shift - 1)
               up   == r > half \/ (r = half /\ (q % 2) = 1)
           IN  sign * ((e + shift + 150) * 8388608
                       + q + (IF up THEN 1 ELSE 0) - 8388608)

\* x + y
FAdd(x, y) ==
  IF x = 0 THEN y
  ELSE IF y = 0 THEN x
  ELSE LET a == IF Expo(x) >= Expo(y) THEN x ELSE y
           b == IF Expo(x) >= Expo(y) THEN y ELSE x
           d == Expo(a) - Expo(b)
           A == Mant(a) * 8
           T == Mant(b) * 8
           B == IF d >= 27 THEN 1
                ELSE (T \div (2^d))
                     + (IF (T % (2^d)) # 0 /\ ((T \div (2^d)) % 2) = 0 THEN 1 ELSE 0)
           S == Sgn(a) * A + Sgn(b) * B
       IN  IF S = 0 THEN 0 ELSE RoundPack(Sgn(S), Abs(S), Expo(a) - 3)

\* x - y
FSub(x, y) == FAdd(x, -y)

\* x * y
FMul(x, y) ==
  IF x = 0 \/ y = 0 THEN 0
  ELSE LET sa == NormShift(Mant(x))
           sb == NormShift(Mant(y))
           ma == Mant(x) * 2^sa
           mb == Mant(y) * 2^sb
           ah == ma \div 4096
           al == ma % 4096
           bh == mb \div 4096
           bl == mb % 4096
           ll == al * bl
           t  == ah * bl + al * bh + (ll \div 4096)
           hi == ah * bh + (t \div 4096)
           lo == (t % 4096) * 4096 + (ll % 4096)
           M  == hi * 8 + (lo \div 4194304) * 2
                 + (IF (lo % 4194304) # 0 THEN 1 ELSE 0)
       IN  RoundPack(Sgn(x) * Sgn(y), M, Expo(x) - sa + Expo(y) - sb + 21)

\* x / y, y # 0
FDiv(x, y) ==
  IF x = 0 THEN 0
  ELSE LET sa == NormShift(Mant(x))
           sb == NormShift(Mant(y))
           ma == Mant(x) * 2^sa
           mb == Mant(y) * 2^sb
           q0 == ma \div mb
           r0 == ma % mb
           q1 == (r0 * 128) \div mb
           r1 == (r0 * 128) % mb
           q2 == (r1 * 128) \div mb
           r2 == (r1 * 128) % mb
           q3 == (r2 * 128) \div mb
           r3 == (r2 * 128) % mb
           q4 == (r3 * 128) \div mb
           r4 == (r3 * 128) % mb
           Q  == ((((q0 * 128 + q1) * 128 + q2) * 128 + q3) * 128) + q4
           M  == Q * 2 + (IF r4 # 0 THEN 1 ELSE 0)
       IN  RoundPack(Sgn(x) * Sgn(y), M, Expo(x) - sa - (Expo(y) - sb) - 29)

----------------------------------------------------------------------------
(* constants of the program and bounds of the model *)

\* #define density 1.0f
density == 1065353216

\* #define gravity 9.8f
gravity == 1092406477

\* 0.1f, the step of a key event
PressureStep == 1036831949

\* 2.0f, 0.5f, 0.25f, 0.75f, 0.0f
TwoF == 1073741824

HalfF == 1056964608

QuarterF == 1048576000

ThreeQuarterF == 1061158912

ZeroF == 0

\* drawPiston: 0.1f above the surface, rod of half width 0.01f up to y = 1.0f
PistonRise == 1036831949

RodHalfWidth == 1008981770

RodTop == 1065353216

\* renderScene: the tube is 0.02f high
TubeHeight == 1017370378

\* key events delivered by glfwPollEvents in one run
MaxKeys == 5

\* key-repeat events of a held key delivered before the run starts (SpecHeld)
NearEmpty == 96

FarBeyond == 1000

GLFW_KEY_SPACE == "SPACE"

GLFW_KEY_LEFT_SHIFT == "LEFT_SHIFT"

GLFW_KEY_S == "S"

GLFW_PRESS == "PRESS"

GLFW_RELEASE == "RELEASE"

GLFW_REPEAT == "REPEAT"

Keys == {GLFW_KEY_SPACE, GLFW_KEY_LEFT_SHIFT, GLFW_KEY_S}

KeyActions == {GLFW_PRESS, GLFW_RELEASE, GLFW_REPEAT}

NoEvent == <<"none", "none">>

----------------------------------------------------------------------------
(* state *)

VARIABLES
  big,              \* struct container big
  small,            \* struct container small
  externalPressure, \* float externalPressure
  pc,               \* position of main(): "loop", "update", "render", "swap", "poll", "done"
  shouldClose,      \* the flag read by glfwWindowShouldClose(window)
  frame,            \* the vertices drawn into the back buffer by renderScene()
  shown,            \* the front buffer, as presented by glfwSwapBuffers()
  nkeys,            \* number of key events dispatched so far
  lastEvent,        \* <<key, action>> of the event dispatched last inside the running poll
  lastTick,         \* the branch by which the last update() returned
  iter              \* the calls completed in the running iteration of the main loop

vars == <<big, small, externalPressure, pc, shouldClose, frame, shown,
          nkeys, lastEvent, lastTick, iter>>

vec2(x, y) == [x |-> x, y |-> y]

\* setup(), the big container
BigSetup ==
  [height      |-> HalfF,
   width       |-> HalfF,
   bottomLeft  |-> vec2(-ThreeQuarterF, -HalfF),
   bottomRight |-> vec2(-QuarterF, -HalfF),
   topLeft     |-> vec2(-ThreeQuarterF, ZeroF),
   topRight    |-> vec2(-QuarterF, ZeroF),
   pressure    |-> FMul(FMul(HalfF, density), gravity)]

\* setup(), the small container
SmallSetup ==
  [height      |-> HalfF,
   width       |-> QuarterF,
   bottomLeft  |-> vec2(HalfF, -HalfF),
   bottomRight |-> vec2(ThreeQuarterF, -HalfF),
   topLeft     |-> vec2(HalfF, ZeroF),
   topRight    |-> vec2(ThreeQuarterF, ZeroF),
   pressure    |-> FMul(FMul(HalfF, density), gravity)]

----------------------------------------------------------------------------
(* update() *)

\* variant: gravity is left out of the pressure
PressureNoGravity(height) == FMul(height, density)

\* height * gravity * density
Pressure(height) == FMul(FMul(height, gravity), density)

\* variant: the external pressure is left out of the left side
LeftPressureNoExternal(b, E) == b.pressure

\* LeftPressure = big.pressure + externalPressure;
LeftPressure(b, E) == FAdd(b.pressure, E)

\* rightPressure = small.pressure;
RightPressure(s) == s.pressure

\* if (LeftPressure == rightPressure) return;
Balanced(L, R) == L = R

\* float h = LeftPressure / (gravity * density);
EquilibriumHeight(L) == FDiv(L, FMul(gravity, density))

\* variant: the change is not halved
HeightChangeNoHalving(sh, h) == FSub(sh, h)

\* float change = small.height; change -= h; change /= 2.0f;
HeightChange(sh, h) == FDiv(FSub(sh, h), TwoF)

\* variants: one test of the guard, or both, left out
GuardBigOnly(bh, h, change) == FAdd(bh, change) < ZeroF

GuardSmallOnly(bh, h, change) == FAdd(h, change) < ZeroF

GuardNever(bh, h, change) == FALSE

\* if (big.height + change < 0.0f || h + change < 0.0f) return;
GuardTriggers(bh, h, change) ==
  FAdd(bh, change) < ZeroF \/ FAdd(h, change) < ZeroF

\* variant: big.height -= change
ApplyLowerBig(b, s, h, change) ==
  LET bh1 == FSub(b.height, change)
      h1  == FAdd(h, change)
      sty == FSub(h1, HalfF)
      bty == FSub(bh1, HalfF)
  IN  [big   |-> [b EXCEPT !.height = bh1,
                           !.topLeft = vec2(b.topLeft.x, bty),
                           !.topRight = vec2(b.topRight.x, bty)],
       small |-> [s EXCEPT !.topLeft = vec2(s.topLeft.x, sty),
                           !.topRight = vec2(s.topRight.x, sty),
                           !.height = FSub(sty, s.bottomLeft.y)]]

\* variant: h += change is left out, small is set to the target height h
ApplyWithoutRaisingH(b, s, h, change) ==
  LET bh1 == FAdd(b.height, change)
      sty == FSub(h, HalfF)
      bty == FSub(bh1, HalfF)
  IN  [big   |-> [b EXCEPT !.height = bh1,
                           !.topLeft = vec2(b.topLeft.x, bty),
                           !.topRight = vec2(b.topRight.x, bty)],
       small |-> [s EXCEPT !.topLeft = vec2(s.topLeft.x, sty),
                           !.topRight = vec2(s.topRight.x, sty),
                           !.height = FSub(sty, s.bottomLeft.y)]]

\* the containers after the assignments that follow the guard
Apply(b, s, h, change) ==
  LET bh1 == FAdd(b.height, change)
      h1  == FAdd(h, change)
      sty == FSub(h1, HalfF)
      bty == FSub(bh1, HalfF)
  IN  [big   |-> [b EXCEPT !.height = bh1,
                           !.topLeft = vec2(b.topLeft.x, bty),
                           !.topRight = vec2(b.topRight.x, bty)],
       small |-> [s EXCEPT !.topLeft = vec2(s.topLeft.x, sty),
                           !.topRight = vec2(s.topRight.x, sty),
                           !.height = FSub(sty, s.bottomLeft.y)]]

\* update() as a function of the state it reads: the containers it leaves
\* and the branch by which it returns
update(b, s, E) ==
  LET b1     == [b EXCEPT !.pressure = Pressure(b.height)]
      s1     == [s EXCEPT !.pressure = Pressure(s.height)]
      L      == LeftPressure(b1, E)
      R      == RightPressure(s1)
      h      == EquilibriumHeight(L)
      change == HeightChange(s1.height, h)
  IN  IF Balanced(L, R)
      THEN [big |-> b1, small |-> s1, branch |-> "balanced"]
      ELSE IF GuardTriggers(b1.height, h, change)
      THEN [big |-> b1, small |-> s1, branch |-> "guarded"]
      ELSE [big    |-> Apply(b1, s1, h, change).big,
            small  |-> Apply(b1, s1, h, change).small,
            branch |-> "applied"]

----------------------------------------------------------------------------
(* renderScene() and drawPiston(): the vertices handed to OpenGL *)

drawPiston(b) ==
  LET pistonTopLeft  == vec2(FAdd(b.topLeft.x, ZeroF), FAdd(b.topLeft.y, PistonRise))
      pistonTopRight == vec2(FAdd(b.topRight.x, ZeroF), FAdd(b.topRight.y, PistonRise))
      mid            == FDiv(FAdd(b.topLeft.x, b.topRight.x), TwoF)
  IN  << <<b.topLeft, b.topRight, pistonTopRight, pistonTopLeft>>,
         <<vec2(FSub(mid, RodHalfWidth), b.topLeft.y),
           vec2(FAdd(mid, RodHalfWidth), b.topLeft.y),
           vec2(FAdd(mid, RodHalfWidth), RodTop),
           vec2(FSub(mid, RodHalfWidth), RodTop)>> >>

renderScene(b, s) ==
  << <<b.bottomLeft, b.bottomRight, b.topRight, b.topLeft>>,
     <<s.bottomLeft, s.bottomRight, s.topRight, s.topLeft>>,
     <<vec2(b.bottomRight.x, b.bottomRight.y),
       vec2(s.bottomLeft.x, s.bottomLeft.y),
       vec2(s.bottomLeft.x, FAdd(s.bottomLeft.y, TubeHeight)),
       vec2(b.bottomRight.x, FAdd(b.bottomRight.y, TubeHeight))>> >>
  \o drawPiston(b)

----------------------------------------------------------------------------
(* key_callback() *)

\* variant: key repeats are ignored
key_callbackPressOnly(E, key, action) ==
  IF key = GLFW_KEY_SPACE /\ action = GLFW_PRESS THEN FAdd(E, PressureStep)
  ELSE IF key = GLFW_KEY_LEFT_SHIFT /\ action = GLFW_PRESS THEN FSub(E, PressureStep)
  ELSE E

\* externalPressure after key_callback(window, key, scancode, action, mods)
key_callback(E, key, action) ==
  LET E1 == IF key = GLFW_KEY_SPACE /\ (action = GLFW_PRESS \/ action = GLFW_REPEAT)
            THEN FAdd(E, PressureStep) ELSE E
  IN  IF key = GLFW_KEY_LEFT_SHIFT /\ (action = GLFW_PRESS \/ action = GLFW_REPEAT)
      THEN FSub(E1, PressureStep) ELSE E1

\* externalPressure after n repeat events of a key (evaluated by halves)
RECURSIVE Repeats(_, _, _)
Repeats(E, key, n) ==
  IF n = 0 THEN E
  ELSE IF n = 1 THEN key_callback(E, key, GLFW_REPEAT)
  ELSE CHOOSE E2 \in {Repeats(E1, key, n - (n \div 2)) :
                         E1 \in {Repeats(E, key, n \div 2)}} : TRUE

\* externalPressure after one press of a key followed by n - 1 repeats
Held(E, key, n) ==
  IF n = 0 THEN E ELSE Repeats(key_callback(E, key, GLFW_PRESS), key, n - 1)

----------------------------------------------------------------------------
(* main() *)

\* the state in which main() reaches its loop: setup(), init(), glfwSetKeyCallback()
Init ==
  /\ big = BigSetup
  /\ small = SmallSetup
  /\ externalPressure = ZeroF
  /\ pc = "loop"
  /\ shouldClose = FALSE
  /\ frame = << >>
  /\ shown = << >>
  /\ nkeys = 0
  /\ lastEvent = NoEvent
  /\ lastTick = "none"
  /\ iter = << >>

\* the state at the end of the first iteration when its glfwPollEvents()
\* has dispatched the events of a key held down, one press and the repeats:
\* the first update() found the pressures of setup() balanced and left the
\* containers as they were, renderScene() has drawn them
InitHeld ==
  \E key \in {GLFW_KEY_SPACE, GLFW_KEY_LEFT_SHIFT}, n \in {NearEmpty, FarBeyond} :
    /\ big = BigSetup
    /\ small = SmallSetup
    /\ externalPressure = Held(ZeroF, key, n)
    /\ pc = "loop"
    /\ shouldClose = FALSE
    /\ frame = renderScene(BigSetup, SmallSetup)
    /\ shown = renderScene(BigSetup, SmallSetup)
    /\ nkeys = 0
    /\ lastEvent = NoEvent
    /\ lastTick = "balanced"
    /\ iter = <<"update", "render", "swap", "poll">>

\* while (!glfwWindowShouldClose(window)): the loop is entered
LoopEnter ==
  /\ pc = "loop"
  /\ ~shouldClose
  /\ pc' = "update"
  /\ iter' = << >>
  /\ UNCHANGED <<big, small, externalPressure, shouldClose, frame, shown,
                 nkeys, lastEvent, lastTick>>

\* the loop is left; main() cleans up and returns
LoopExit ==
  /\ pc = "loop"
  /\ shouldClose
  /\ pc' = "done"
  /\ UNCHANGED <<big, small, externalPressure, shouldClose, frame, shown,
                 nkeys, lastEvent, lastTick, iter>>

\* update();
Update ==
  /\ pc = "update"
  /\ big' = update(big, small, externalPressure).big
  /\ small' = update(big, small, externalPressure).small
  /\ lastTick' = update(big, small, externalPressure).branch
  /\ pc' = "render"
  /\ iter' = Append(iter, "update")
  /\ UNCHANGED <<externalPressure, shouldClose, frame, shown, nkeys, lastEvent>>

\* renderScene();
RenderScene ==
  /\ pc = "render"
  /\ frame' = renderScene(big, small)
  /\ pc' = "swap"
  /\ iter' = Append(iter, "render")
  /\ UNCHANGED <<big, small, externalPressure, shouldClose, shown,
                 nkeys, lastEvent, lastTick>>

\* glfwSwapBuffers(window);
SwapBuffers ==
  /\ pc = "swap"
  /\ shown' = frame
  /\ pc' = "poll"
  /\ iter' = Append(iter, "swap")
  /\ UNCHANGED <<big, small, externalPressure, shouldClose, frame,
                 nkeys, lastEvent, lastTick>>

\* variant: key events are dispatched at any point of the loop
KeyCallbackAsync ==
  /\ pc # "done"
  /\ nkeys < MaxKeys
  /\ \E key \in Keys, action \in KeyActions :
       /\ externalPressure' = key_callback(externalPressure, key, action)
       /\ lastEvent' = <<key, action>>
  /\ nkeys' = nkeys + 1
  /\ UNCHANGED <<big, small, pc, shouldClose, frame, shown, lastTick, iter>>

\* glfwPollEvents() dispatches a pending key event to key_callback
KeyCallback ==
  /\ pc = "poll"
  /\ nkeys < MaxKeys
  /\ \E key \in Keys, action \in KeyActions :
       /\ externalPressure' = key_callback(externalPressure, key, action)
       /\ lastEvent' = <<key, action>>
  /\ nkeys' = nkeys + 1
  /\ UNCHANGED <<big, small, pc, shouldClose, frame, shown, lastTick, iter>>

\* glfwPollEvents() processes the request to close the window
WindowClose ==
  /\ pc = "poll"
  /\ ~shouldClose
  /\ shouldClose' = TRUE
  /\ UNCHANGED <<big, small, externalPressure, pc, frame, shown,
                 nkeys, lastEvent, lastTick, iter>>

\* glfwPollEvents() returns: no event is pending any more
PollReturn ==
  /\ pc = "poll"
  /\ pc' = "loop"
  /\ lastEvent' = NoEvent
  /\ iter' = Append(iter, "poll")
  /\ UNCHANGED <<big, small, externalPressure, shouldClose, frame, shown,
                 nkeys, lastTick>>

Next ==
  \/ LoopEnter
  \/ LoopExit
  \/ Update
  \/ RenderScene
  \/ SwapBuffers
  \/ KeyCallback
  \/ WindowClose
  \/ PollReturn

Spec == Init /\ [][Next]_vars

SpecHeld == InitHeld /\ [][Next]_vars

----------------------------------------------------------------------------
(* vocabulary of the properties *)

\* an Update step: main() calls update() and it returns
IsTick == pc = "update" /\ pc' = "render"

\* a step in which key_callback runs
IsKey == nkeys' = nkeys + 1

\* |LeftPressure - rightPressure| of a state, from the heights
Imbalance(b, s, E) ==
  Abs(FSub(FAdd(FMul(FMul(b.height, gravity), density), E),
           FMul(FMul(s.height, gravity), density)))

\* the pressures of a state are exactly equal
Equal(b, s, E) ==
  FAdd(FMul(FMul(b.height, gravity), density), E)
    = FMul(FMul(s.height, gravity), density)

\* the target height and the halved change update() computes in a state
TargetHeight(b, E) ==
  FDiv(FAdd(FMul(FMul(b.height, gravity), density), E), FMul(gravity, density))

HalvedChange(b, s, E) == FDiv(FSub(s.height, TargetHeight(b, E)), TwoF)

\* applying the change would make a height negative
WouldGoNegative(b, s, E) ==
  /\ ~Equal(b, s, E)
  /\ \/ FAdd(b.height, HalvedChange(b, s, E)) < ZeroF
     \/ FAdd(TargetHeight(b, E), HalvedChange(b, s, E)) < ZeroF

\* the fields of a container other than the stored pressure
Shape(c) ==
  <<c.height, c.width, c.bottomLeft, c.bottomRight, c.topLeft, c.topRight>>

\* the four corner points of a container
Corners(c) == <<c.bottomLeft, c.bottomRight, c.topLeft, c.topRight>>

\* a tick in the state would leave the heights and the corner points as they are
Stable(b, s, E) ==
  /\ Shape(update(b, s, E).big) = Shape(b)
  /\ Shape(update(b, s, E).small) = Shape(s)

IsPrefix(s, t) ==
  /\ Len(s) <= Len(t)
  /\ \A i \in 1..Len(s) : s[i] = t[i]

\* 2^-18, about 3.8e-6: the size of the rounding error of a pressure
Epsilon == 109 * 8388608

\* the exact value of a float in units of 2^-30; exact for 0 and for
\* 2^-7 <= |x| < 2, which covers the heights of the states the sum is taken in
Fixed30(x) ==
  IF Expo(x) >= -30 THEN Sgn(x) * Mant(x) * 2^(Expo(x) + 30)
  ELSE Sgn(x) * (Mant(x) \div (2^((-30) - Expo(x))))

\* big.height + small.height of a state, exactly, in units of 2^-30
HeightSum(b, s) == Fixed30(b.height) + Fixed30(s.height)

\* 1.0, the sum of the heights set by setup(), in units of 2^-30
UnitSum == 2^30

\* 2^-21, about 4.8e-7, in units of 2^-30: the size of the rounding error
\* of a few float operations on values near 1
SumTolerance == 2^9

\* -10.0f: a piston pressure beyond what the columns balance (9.8 * 1.0)
BeyondBalance == -(130 * 8388608 + 2097152)

NonNegative == big.height >= ZeroF /\ small.height >= ZeroF

----------------------------------------------------------------------------
(* properties *)

\* C1 (Non-negativity): in every reachable state big.height >= 0 and
\* small.height >= 0, and a tick taken where applying the change would make
\* a height negative leaves the heights and the corner points untouched.
C1_NonNegativity ==
  /\ []NonNegative
  /\ [][IsTick /\ WouldGoNegative(big, small, externalPressure)
          => Shape(big') = Shape(big) /\ Shape(small') = Shape(small)]_vars

\* a tick has been refused on the draining side and the heights are not negative
C1_Witness ==
  /\ lastTick = "guarded"
  /\ pc = "render"
  /\ externalPressure < ZeroF
  /\ WouldGoNegative(big, small, externalPressure)
  /\ NonNegative

\* C2 (Equilibrium convergence): a tick taken with externalPressure = 0 in a
\* valid state never increases |leftPressure - rightPressure| and leaves the
\* two pressures equal within epsilon.
C2_Convergence ==
  [][IsTick /\ externalPressure = ZeroF /\ NonNegative
       => /\ Imbalance(big', small', externalPressure')
               <= Imbalance(big, small, externalPressure)
          /\ Imbalance(big', small', externalPressure') <= Epsilon]_vars

\* a tick has applied a change with externalPressure = 0 and has balanced the columns
C2_Witness ==
  /\ externalPressure = ZeroF
  /\ lastTick = "applied"
  /\ pc = "render"
  /\ nkeys >= 2
  /\ Imbalance(big, small, externalPressure) <= Epsilon

\* C3 (No-op on balance), as claimed: a tick taken where the pressures are
\* exactly equal leaves every field of both containers, the stored pressure
\* included, and externalPressure unchanged.
C3_Original ==
  [][IsTick /\ Equal(big, small, externalPressure)
       => big' = big /\ small' = small
          /\ externalPressure' = externalPressure]_vars

\* C3 as amended: a tick taken where the pressures are exactly equal leaves
\* the heights, the widths, the corner points and externalPressure unchanged
\* and sets the stored pressures to height * gravity * density; the first
\* tick after setup() changes nothing at all.
C3_Amended ==
  /\ [][IsTick /\ Equal(big, small, externalPressure)
          => /\ Shape(big') = Shape(big)
             /\ Shape(small') = Shape(small)
             /\ externalPressure' = externalPressure
             /\ big'.pressure = FMul(FMul(big.height, gravity), density)
             /\ small'.pressure = FMul(FMul(small.height, gravity), density)]_vars
  /\ [][IsTick /\ lastTick = "none"
          => big' = big /\ small' = small
             /\ externalPressure' = externalPressure]_vars

\* a balanced tick has been taken after key events have moved the columns
C3_Witness ==
  /\ lastTick = "balanced"
  /\ pc = "render"
  /\ externalPressure # ZeroF
  /\ big.height # HalfF
  /\ Equal(big, small, externalPressure)

\* C4 (Idempotent guard), as claimed: a tick taken where the guard triggers
\* leaves every field of both containers and externalPressure unchanged.
C4_Original ==
  [][IsTick /\ WouldGoNegative(big, small, externalPressure)
       => big' = big /\ small' = small
          /\ externalPressure' = externalPressure]_vars

\* C4 as amended: a tick taken where the guard triggers leaves the heights,
\* the widths, the corner points and externalPressure unchanged and sets the
\* stored pressures to height * gravity * density; in the state it leaves the
\* guard triggers again and a further tick changes nothing at all.
C4_Amended ==
  [][IsTick /\ WouldGoNegative(big, small, externalPressure)
       => /\ Shape(big') = Shape(big)
          /\ Shape(small') = Shape(small)
          /\ externalPressure' = externalPressure
          /\ big'.pressure = FMul(FMul(big.height, gravity), density)
          /\ small'.pressure = FMul(FMul(small.height, gravity), density)
          /\ WouldGoNegative(big', small', externalPressure')
          /\ update(big', small', externalPressure').big = big'
          /\ update(big', small', externalPressure').small = small']_vars

\* a second guarded tick is about to run on the state a guarded tick left
C4_Witness ==
  /\ lastTick = "guarded"
  /\ pc = "update"
  /\ WouldGoNegative(big, small, externalPressure)

\* C5 (Draining scenario), as claimed: once externalPressure is far below
\* what the columns balance, a tick has run at that pressure and further
\* ticks change no height, big.height is 0 (within epsilon).
C5_Original ==
  (externalPressure < BeyondBalance /\ pc = "render"
     /\ Stable(big, small, externalPressure))
    => big.height <= Epsilon

\* C5 as amended: with externalPressure driven far below what the columns
\* balance, big.height is never below its setup value 0.5 (fluid is drawn into
\* big, small is the side that drains), neither height is negative, and
\* every tick is refused by the guard.
C5_Amended ==
  externalPressure < BeyondBalance
    => /\ big.height >= HalfF
       /\ small.height >= ZeroF
       /\ small.height <= HalfF
       /\ update(big, small, externalPressure).branch = "guarded"

\* far below balance, after big has risen and a tick has been refused
C5_Witness ==
  /\ externalPressure < BeyondBalance
  /\ lastTick = "guarded"
  /\ pc = "render"
  /\ big.height > HalfF

\* C6 (Pressurised equilibrium): after one step of +0.1 from the setup state
\* a tick leaves heights that no later tick changes, with the pressures
\* balanced within epsilon and small.height > big.height.
C6_Pressurised ==
  [][IsTick /\ nkeys = 1 /\ externalPressure = PressureStep
       => /\ Stable(big', small', externalPressure')
          /\ Imbalance(big', small', externalPressure') <= Epsilon
          /\ small'.height > big'.height]_vars

\* the first tick after the single step has applied its change
C6_Witness ==
  /\ nkeys = 1
  /\ externalPressure = PressureStep
  /\ lastTick = "applied"
  /\ pc = "render"
  /\ small.height > big.height

\* C7 (Input contract): a press or repeat of Space adds the step to
\* externalPressure, a press or repeat of Left Shift subtracts it, any other
\* event leaves it; no key event changes a container; the step is never
\* clamped or rejected.
C7_InputContract ==
  [][IsKey
       => /\ big' = big
          /\ small' = small
          /\ LET key    == lastEvent'[1]
                 action == lastEvent'[2]
                 fires  == action \in {"PRESS", "REPEAT"}
             IN  /\ (key = "SPACE" /\ fires)
                      => /\ externalPressure' = FAdd(externalPressure, PressureStep)
                         /\ externalPressure' > externalPressure
                 /\ (key = "LEFT_SHIFT" /\ fires)
                      => /\ externalPressure' = FSub(externalPressure, PressureStep)
                         /\ externalPressure' < externalPressure
                 /\ (~fires \/ key \notin {"SPACE", "LEFT_SHIFT"})
                      => externalPressure' = externalPressure]_vars

\* a repeat of Left Shift has lowered the pressure while the guard refuses the ticks
C7_Witness ==
  /\ pc = "poll"
  /\ lastTick = "guarded"
  /\ lastEvent = <<"LEFT_SHIFT", "REPEAT">>
  /\ externalPressure < BeyondBalance
  /\ WouldGoNegative(big, small, externalPressure)

\* C8 (Main-loop ordering), as claimed: an iteration polls the input, then
\* ticks, then renders, then presents.
C8_Original == IsPrefix(iter, <<"poll", "update", "render", "swap">>)

\* C8 as amended: an iteration ticks, then renders, then presents, then
\* polls the input; the first tick after setup() runs before any key event
\* has been dispatched; externalPressure does not change between the start
\* of a tick and the end of the render that follows it.
C8_Amended ==
  /\ [](IsPrefix(iter, <<"update", "render", "swap", "poll">>))
  /\ []((pc = "update" /\ lastTick = "none")
          => nkeys = 0 /\ externalPressure = ZeroF)
  /\ [][(pc = "update" \/ pc = "render")
          => externalPressure' = externalPressure]_vars

\* an iteration is complete and its poll has dispatched a key event
C8_Witness ==
  /\ pc = "loop"
  /\ iter = <<"update", "render", "swap", "poll">>
  /\ nkeys > 0
  /\ externalPressure # ZeroF

\* C9 (Damped correction), as claimed: a tick that applies a change leaves
\* half of the pressure imbalance it found.
C9_Original ==
  [][IsTick /\ lastTick' = "applied"
       => FMul(TwoF, Imbalance(big', small', externalPressure'))
            = Imbalance(big, small, externalPressure)]_vars

\* C9 as amended: a tick that applies a change adds half of the height
\* discrepancy (small.height - h) to big.height and takes it from
\* small.height, which removes the whole pressure imbalance in that one
\* tick: what is left is rounding error, within epsilon.
C9_Amended ==
  [][IsTick /\ lastTick' = "applied"
       => /\ big'.height
               = FAdd(big.height, HalvedChange(big, small, externalPressure))
          /\ Imbalance(big', small', externalPressure') <= Epsilon]_vars

\* a tick has applied a change to an imbalance of a whole step or more
C9_Witness ==
  /\ lastTick = "applied"
  /\ pc = "render"
  /\ nkeys >= 1
  /\ externalPressure >= PressureStep
  /\ small.height > big.height
  /\ Imbalance(big, small, externalPressure) <= Epsilon

\* C10 (Conservation), as claimed: big.height + small.height is 1.0 in
\* every reachable state.
C10_Original == HeightSum(big, small) = UnitSum

\* C10 as amended: key events and ticks that do not apply a change leave
\* both heights as they are; a tick that applies a change preserves
\* big.height + small.height up to rounding only: the sum moves by at most
\* 2^-21 in such a tick.
C10_Amended ==
  /\ [][~(IsTick /\ lastTick' = "applied")
          => big'.height = big.height /\ small'.height = small.height]_vars
  /\ [][IsTick /\ lastTick' = "applied"
          => Abs(HeightSum(big', small') - HeightSum(big, small))
               <= SumTolerance]_vars

\* a tick has applied a change and the sum of the heights is no longer 1.0
C10_Witness ==
  /\ lastTick = "applied"
  /\ pc = "render"
  /\ HeightSum(big, small) # UnitSum
  /\ Abs(HeightSum(big, small) - UnitSum) <= SumTolerance

====
